---------------------------- MODULE Spec2Model ----------------------------
(***************************************************************************)
(* A model of cmd/age/age.go: the command-line front-end of age.           *)
(*                                                                         *)
(* One behaviour is one run of the process: the flag package parses the    *)
(* command line one flag at a time, main validates the flag combination,   *)
(* opens the input and the output, and dispatches to one of decryptPass,   *)
(* decryptNotPass, encryptPass and encryptNotPass.                         *)
(*                                                                         *)
(* errorf and errorWithHint live in another file of package main.  They    *)
(* print the message and end the process (age.go:411-413 states that the   *)
(* call does not return); deferred calls do not run after them.            *)
(***************************************************************************)
EXTENDS Integers, Sequences, FiniteSets, TLC

VARIABLES
    \* ---- main's flag variables (age.go:109-116)
    outFlag, decryptFlag, encryptFlag, passFlag, versionFlag, armorFlag,
    recipientFlags, recipientsFileFlags, identityFlags,
    \* ---- the command line as the flag package has consumed it
    anyFlags,     \* TRUE once at least one flag argument was parsed
    args,         \* flag.Args(): the positional arguments
    ijCalls,      \* history: the -i / -j callbacks in call order
    \* ---- the process
    pc, exitCode, errmsg, defers,
    \* ---- main's in and out (age.go:226-275) and the terminal
    in, out, stdinInUse, stdinTTY, stdoutTTY,
    \* ---- the operation main dispatched to and what it handed to the library
    op, recipients, identities,
    \* ---- the write layers of encrypt: STREAM writer, armor writer, lazyOpener
    w, a,         \* "none", "open" or "closed"
    l,            \* the lazyOpener struct (age.go:508-512)
    fd,           \* the os.File behind l.f: "none", "open" or "closed"
    creates,      \* history: the number of os.Create calls
    trace,        \* history: the calls made on the write layers, in order
    lazyLog,      \* history: the results of the calls made on the lazyOpener
    \* ---- decrypt
    input,        \* the bytes of the input
    rr,           \* the bufio.Reader of decrypt (age.go:450)
    armored,      \* "unset", or whether decrypt chose armor.NewReader
    hdr,          \* the stanzas age.Decrypt parsed from the header
    idx,          \* the identity age.Decrypt tries next
    unwraps       \* history: the Unwrap calls and their results

flagVars == <<outFlag, decryptFlag, encryptFlag, passFlag, versionFlag, armorFlag,
              recipientFlags, recipientsFileFlags, identityFlags>>
argVars  == <<anyFlags, args, ijCalls>>
procVars == <<pc, exitCode, errmsg, defers>>
ioVars   == <<in, out, stdinInUse, stdinTTY, stdoutTTY>>
opVars   == <<op, recipients, identities>>
layerVars == <<w, a, l, fd, creates, trace, lazyLog>>
decVars  == <<input, rr, armored, hdr, idx, unwraps>>
vars     == <<flagVars, argVars, procVars, ioVars, opVars, layerVars, decVars>>

-----------------------------------------------------------------------------
(* Bounds of the model. *)


(* The most -r, -R, -i and -j flags (together) on one command line. *)
MaxValueFlags == 3

(* The values the command line draws from. *)
RecipientArgs      == {"age1a", "age1b", "github:u", "junk"}
RecipientsFileArgs == {"recs.txt", "norecs.txt"}
IdentityFileArgs   == {"key.txt", "enc.age", "nokey.txt"}
PluginArgs         == {"yubikey"}
OutArgs            == {"", "-", "out.age"}
PositionalArgs     == {<< >>, <<"-">>, <<"in.age">>, <<"missing.age">>,
                       <<"in.age", "-a">>, <<"in.age", "other.age">>}


-----------------------------------------------------------------------------
(* Go's zero values and the error value nil. *)
NoError == ""

(* errorf / errorWithHint: the message is reported and the process ends    *)
(* with status 1; main's deferred calls do not run.                        *)
errorf(msg) ==
    /\ pc' = "exited"
    /\ exitCode' = 1
    /\ errmsg' = msg
    /\ defers' = defers

-----------------------------------------------------------------------------
(* The state right after main has declared its flag variables              *)
(* (age.go:109-116): every flag has its zero value.                        *)
Init ==
    /\ outFlag = ""
    /\ decryptFlag = FALSE /\ encryptFlag = FALSE /\ passFlag = FALSE
    /\ versionFlag = FALSE /\ armorFlag = FALSE
    /\ recipientFlags = << >>
    /\ recipientsFileFlags = << >>
    /\ identityFlags = << >>
    /\ anyFlags = FALSE /\ args = << >> /\ ijCalls = << >>
    /\ pc = "parse" /\ exitCode = 0 /\ errmsg = NoError /\ defers = << >>
    /\ in = "stdin" /\ out = "stdout" /\ stdinInUse = FALSE
    /\ stdinTTY = "unknown" /\ stdoutTTY = "unknown"
    /\ op = "none" /\ recipients = << >> /\ identities = << >>
    /\ w = "none" /\ a = "none"
    /\ l = [name |-> "", f |-> "nil", err |-> NoError]
    /\ fd = "none" /\ creates = 0 /\ trace = << >> /\ lazyLog = << >>
    /\ input = << >> /\ rr = [buf |-> << >>, pos |-> 0]
    /\ armored = "unset" /\ hdr = << >> /\ idx = 0 /\ unwraps = << >>

-----------------------------------------------------------------------------
(* flag.Parse (age.go:118-136): one action per flag of the command line.   *)

(* How many -r, -R, -i and -j flags have been parsed. *)
ValueFlagCount ==
    Len(recipientFlags) + Len(recipientsFileFlags) + Len(identityFlags)

(* multiFlag.Set, age.go:78-81 *)
multiFlagSet(f, value) == Append(f, value)

(* identityFlags.addIdentityFlag, age.go:91-94 *)
addIdentityFlag(f, value) == Append(f, [Type |-> "i", Value |-> value])

(* addPluginFlag putting the flag first instead of last *)
addPluginFlagFirst(f, value) == <<[Type |-> "j", Value |-> value]>> \o f

(* identityFlags.addPluginFlag, age.go:96-99 *)
addPluginFlag(f, value) == Append(f, [Type |-> "j", Value |-> value])

ParseBool ==
    /\ pc = "parse"
    /\ \E name \in {"version", "d", "e", "p", "a"} :
         /\ versionFlag' = (versionFlag \/ name = "version")
         /\ decryptFlag' = (decryptFlag \/ name = "d")
         /\ encryptFlag' = (encryptFlag \/ name = "e")
         /\ passFlag'    = (passFlag \/ name = "p")
         /\ armorFlag'   = (armorFlag \/ name = "a")
    /\ anyFlags' = TRUE
    /\ UNCHANGED <<outFlag, recipientFlags, recipientsFileFlags, identityFlags,
                   args, ijCalls, procVars, ioVars, opVars, layerVars, decVars>>

ParseOutput ==
    /\ pc = "parse"
    /\ \E value \in OutArgs : outFlag' = value
    /\ anyFlags' = TRUE
    /\ UNCHANGED <<decryptFlag, encryptFlag, passFlag, versionFlag, armorFlag,
                   recipientFlags, recipientsFileFlags, identityFlags,
                   args, ijCalls, procVars, ioVars, opVars, layerVars, decVars>>

ParseRecipient ==
    /\ pc = "parse"
    /\ ValueFlagCount < MaxValueFlags
    /\ \E value \in RecipientArgs :
         recipientFlags' = multiFlagSet(recipientFlags, value)
    /\ anyFlags' = TRUE
    /\ UNCHANGED <<outFlag, decryptFlag, encryptFlag, passFlag, versionFlag, armorFlag,
                   recipientsFileFlags, identityFlags,
                   args, ijCalls, procVars, ioVars, opVars, layerVars, decVars>>

ParseRecipientsFile ==
    /\ pc = "parse"
    /\ ValueFlagCount < MaxValueFlags
    /\ \E value \in RecipientsFileArgs :
         recipientsFileFlags' = multiFlagSet(recipientsFileFlags, value)
    /\ anyFlags' = TRUE
    /\ UNCHANGED <<outFlag, decryptFlag, encryptFlag, passFlag, versionFlag, armorFlag,
                   recipientFlags, identityFlags,
                   args, ijCalls, procVars, ioVars, opVars, layerVars, decVars>>

ParseIdentity ==
    /\ pc = "parse"
    /\ ValueFlagCount < MaxValueFlags
    /\ \E value \in IdentityFileArgs :
         /\ identityFlags' = addIdentityFlag(identityFlags, value)
         /\ ijCalls' = Append(ijCalls, <<"i", value>>)
    /\ anyFlags' = TRUE
    /\ UNCHANGED <<outFlag, decryptFlag, encryptFlag, passFlag, versionFlag, armorFlag,
                   recipientFlags, recipientsFileFlags,
                   args, procVars, ioVars, opVars, layerVars, decVars>>

ParsePlugin ==
    /\ pc = "parse"
    /\ ValueFlagCount < MaxValueFlags
    /\ \E value \in PluginArgs :
         /\ identityFlags' = addPluginFlag(identityFlags, value)
         /\ ijCalls' = Append(ijCalls, <<"j", value>>)
    /\ anyFlags' = TRUE
    /\ UNCHANGED <<outFlag, decryptFlag, encryptFlag, passFlag, versionFlag, armorFlag,
                   recipientFlags, recipientsFileFlags,
                   args, procVars, ioVars, opVars, layerVars, decVars>>

ErrUsage == "usage"

(* len(os.Args) == 1 (age.go:104-107): usage is printed, exit(1). *)
NoArguments ==
    /\ pc = "parse"
    /\ ~anyFlags
    /\ pc' = "exited" /\ exitCode' = 1 /\ errmsg' = ErrUsage
    /\ UNCHANGED <<defers, flagVars, argVars, ioVars, opVars, layerVars, decVars>>

(* flag.Parse returns at the first non-flag argument or at the end. *)
ParseDone ==
    /\ pc = "parse"
    /\ \E rest \in PositionalArgs :
         /\ anyFlags \/ rest # << >>
         /\ args' = rest
    /\ pc' = "validate"
    /\ UNCHANGED <<exitCode, errmsg, defers, flagVars, anyFlags, ijCalls, ioVars, opVars, layerVars, decVars>>

-----------------------------------------------------------------------------
(* main, age.go:138-224: --version, the INPUT count and the mode switch.   *)

ErrTooManyInputs    == "too many INPUT arguments"
ErrEncryptDecrypt   == "-e/--encrypt can't be used with -d/--decrypt"
ErrArmorDecrypt     == "-a/--armor can't be used with -d/--decrypt"
ErrPassDecrypt      == "-p/--passphrase can't be used with -d/--decrypt"
ErrRecipientDecrypt == "-r/--recipient can't be used with -d/--decrypt"
ErrRecFileDecrypt   == "-R/--recipients-file can't be used with -d/--decrypt"
ErrIdentityNoE      == "-i/--identity and -j can't be used in encryption mode unless symmetric encryption is explicitly selected with -e/--encrypt"
ErrMissingRecipients == "missing recipients"
ErrPassRecipient    == "-p/--passphrase can't be combined with -r/--recipient"
ErrPassRecFile      == "-p/--passphrase can't be combined with -R/--recipients-file"
ErrPassIdentity     == "-p/--passphrase can't be combined with -i/--identity and -j"
ErrBinaryToTerminal == "refusing to output binary to the terminal"

(* decryptModeError without the check of -a/--armor *)
decryptModeErrorNoArmorCheck ==
    IF encryptFlag THEN ErrEncryptDecrypt
    ELSE IF passFlag THEN ErrPassDecrypt
    ELSE IF Len(recipientFlags) > 0 THEN ErrRecipientDecrypt
    ELSE IF Len(recipientsFileFlags) > 0 THEN ErrRecFileDecrypt
    ELSE NoError

(* case decryptFlag, age.go:186-205: the first check that fails ends the   *)
(* process.                                                                *)
decryptModeError ==
    IF encryptFlag THEN ErrEncryptDecrypt
    ELSE IF armorFlag THEN ErrArmorDecrypt
    ELSE IF passFlag THEN ErrPassDecrypt
    ELSE IF Len(recipientFlags) > 0 THEN ErrRecipientDecrypt
    ELSE IF Len(recipientsFileFlags) > 0 THEN ErrRecFileDecrypt
    ELSE NoError

(* encryptModeError without the check for missing recipients *)
encryptModeErrorNoMissingCheck ==
    IF Len(identityFlags) > 0 /\ ~encryptFlag THEN ErrIdentityNoE
    ELSE IF Len(recipientFlags) > 0 /\ passFlag THEN ErrPassRecipient
    ELSE IF Len(recipientsFileFlags) > 0 /\ passFlag THEN ErrPassRecFile
    ELSE IF Len(identityFlags) > 0 /\ passFlag THEN ErrPassIdentity
    ELSE NoError

(* encryptModeError without the check of -p against -i / -j *)
encryptModeErrorNoPassIdentityCheck ==
    IF Len(identityFlags) > 0 /\ ~encryptFlag THEN ErrIdentityNoE
    ELSE IF Len(recipientFlags) + Len(recipientsFileFlags) + Len(identityFlags) = 0
            /\ ~passFlag THEN ErrMissingRecipients
    ELSE IF Len(recipientFlags) > 0 /\ passFlag THEN ErrPassRecipient
    ELSE IF Len(recipientsFileFlags) > 0 /\ passFlag THEN ErrPassRecFile
    ELSE NoError

(* default: // encrypt, age.go:206-223 *)
encryptModeError ==
    IF Len(identityFlags) > 0 /\ ~encryptFlag THEN ErrIdentityNoE
    ELSE IF Len(recipientFlags) + Len(recipientsFileFlags) + Len(identityFlags) = 0
            /\ ~passFlag THEN ErrMissingRecipients
    ELSE IF Len(recipientFlags) > 0 /\ passFlag THEN ErrPassRecipient
    ELSE IF Len(recipientsFileFlags) > 0 /\ passFlag THEN ErrPassRecFile
    ELSE IF Len(identityFlags) > 0 /\ passFlag THEN ErrPassIdentity
    ELSE NoError

(* switch { case decryptFlag: ... default: ... }, age.go:185-224 *)
modeError == IF decryptFlag THEN decryptModeError ELSE encryptModeError

(* age.go:138-224.  With --version main prints the version and returns     *)
(* before any other check; with more than one INPUT it reports that.       *)
mainValidate ==
    /\ pc = "validate"
    /\ IF versionFlag
         THEN pc' = "exited" /\ exitCode' = 0 /\ errmsg' = NoError /\ defers' = defers
       ELSE IF Len(args) > 1
         THEN errorf(ErrTooManyInputs)
       ELSE IF modeError # NoError
         THEN errorf(modeError)
       ELSE pc' = "openInput" /\ UNCHANGED <<exitCode, errmsg, defers>>
    /\ UNCHANGED <<flagVars, argVars, ioVars, opVars, layerVars, decVars>>

-----------------------------------------------------------------------------
(* main, age.go:226-275: the input and the output.                         *)

(* The files of the file system that os.Open finds. *)
ExistingFiles == {"in.age"}

(* term.IsTerminal is a fact of the environment: it is drawn the first     *)
(* time the program asks and is the same each later time.                  *)
TTYAnswers(known) == IF known = "unknown" THEN {"yes", "no"} ELSE {known}

(* flag.Arg(0): "" when there is no positional argument *)
Arg0 == IF Len(args) = 0 THEN "" ELSE args[1]

(* age.go:226-247 *)
openInput ==
    /\ pc = "openInput"
    /\ IF Arg0 # "" /\ Arg0 # "-"
         THEN /\ IF Arg0 \in ExistingFiles
                   THEN /\ in' = "file"
                        /\ defers' = Append(defers, "in.Close")
                        /\ pc' = "openOutput"
                        /\ UNCHANGED <<exitCode, errmsg>>
                   ELSE /\ errorf("failed to open input file")
                        /\ in' = in
              /\ UNCHANGED <<stdinInUse, stdinTTY>>
         ELSE /\ stdinInUse' = TRUE
              /\ IF decryptFlag
                   THEN \E tty \in TTYAnswers(stdinTTY) :
                          /\ stdinTTY' = tty
                          /\ IF tty = "yes"
                               THEN \E ok \in BOOLEAN :
                                      IF ok
                                        THEN /\ in' = "buffer"
                                             /\ pc' = "openOutput"
                                             /\ UNCHANGED <<exitCode, errmsg, defers>>
                                        ELSE /\ errorf("failed to buffer terminal input")
                                             /\ in' = in
                               ELSE /\ in' = in
                                    /\ pc' = "openOutput"
                                    /\ UNCHANGED <<exitCode, errmsg, defers>>
                   ELSE /\ pc' = "openOutput"
                        /\ UNCHANGED <<in, stdinTTY, exitCode, errmsg, defers>>
    /\ UNCHANGED <<out, stdoutTTY, flagVars, argVars, opVars, layerVars, decVars>>

(* newLazyOpener, age.go:514-516 *)
newLazyOpener(name) == [name |-> name, f |-> "nil", err |-> NoError]

(* refuseBinary without the test of name != "-" *)
refuseBinaryEvenIfForced == ~decryptFlag /\ ~armorFlag

(* age.go:257-266: on a terminal, binary output is refused unless it was   *)
(* asked for with "-o -", or the mode is decrypt, or the output is armored *)
refuseBinary == outFlag # "-" /\ ~decryptFlag /\ ~armorFlag

(* age.go:248-275 *)
openOutput ==
    /\ pc = "openOutput"
    /\ IF outFlag # "" /\ outFlag # "-"
         THEN /\ out' = "lazyOpener"
              /\ l' = newLazyOpener(outFlag)
              /\ defers' = Append(defers, "out.Close")
              /\ pc' = "dispatch"
              /\ UNCHANGED <<exitCode, errmsg, stdinTTY, stdoutTTY>>
         ELSE \E otty \in TTYAnswers(stdoutTTY) :
              /\ stdoutTTY' = otty
              /\ l' = l
              /\ IF otty = "yes"
                   THEN IF refuseBinary
                          THEN /\ errorf(ErrBinaryToTerminal)
                               /\ UNCHANGED <<out, stdinTTY>>
                          ELSE IF in = "stdin"
                                 THEN \E itty \in TTYAnswers(stdinTTY) :
                                        /\ stdinTTY' = itty
                                        /\ IF itty = "yes"
                                             THEN /\ out' = "buffer"
                                                  /\ defers' = Append(defers, "copyBuffer")
                                             ELSE UNCHANGED <<out, defers>>
                                        /\ pc' = "dispatch"
                                        /\ UNCHANGED <<exitCode, errmsg>>
                                 ELSE /\ pc' = "dispatch"
                                      /\ UNCHANGED <<out, stdinTTY, exitCode, errmsg, defers>>
                   ELSE /\ pc' = "dispatch"
                        /\ UNCHANGED <<out, stdinTTY, exitCode, errmsg, defers>>
    /\ UNCHANGED <<in, stdinInUse, flagVars, argVars, opVars, decVars,
                   w, a, fd, creates, trace, lazyLog>>

(* switch, age.go:277-286 *)
dispatchTarget ==
    IF decryptFlag /\ Len(identityFlags) = 0 THEN "decryptPass"
    ELSE IF decryptFlag THEN "decryptNotPass"
    ELSE IF passFlag THEN "encryptPass"
    ELSE "encryptNotPass"

dispatch ==
    /\ pc = "dispatch"
    /\ op' = dispatchTarget
    /\ pc' = dispatchTarget
    /\ UNCHANGED <<exitCode, errmsg, defers, recipients, identities,
                   flagVars, argVars, ioVars, layerVars, decVars>>

-----------------------------------------------------------------------------
(* The collaborators that turn command-line values into recipients and     *)
(* identities.  Each result is [err, items]: the error, or the values in   *)
(* the order the parser returns them.                                      *)

Ok(items) == [err |-> NoError, items |-> items]
Failed(msg) == [err |-> msg, items |-> << >>]

(* parseRecipient: an age or SSH public key, or an error; "github:" names  *)
(* get the gitHubRecipientError hint (age.go:320-328).                     *)
parseRecipient(arg) ==
    CASE arg = "age1a" -> Ok(<<[type |-> "X25519", key |-> "a"]>>)
      [] arg = "age1b" -> Ok(<<[type |-> "X25519", key |-> "b"]>>)
      [] arg = "github:u" -> Failed("gitHubRecipientError")
      [] OTHER -> Failed("unknown recipient type")

(* parseRecipientsFile: one recipient per line, in file order. *)
parseRecipientsFile(name) ==
    CASE name = "recs.txt" -> Ok(<<[type |-> "X25519", key |-> "c"],
                                  [type |-> "ssh-ed25519", key |-> "d"]>>)
      [] OTHER -> Failed("failed to parse recipient file")

(* parseIdentitiesFile: the identities of the file, in file order. *)
parseIdentitiesFile(name) ==
    CASE name = "key.txt" -> Ok(<<[type |-> "X25519Identity", key |-> "k1"],
                                 [type |-> "Ed25519Identity", key |-> "k2"]>>)
      [] name = "enc.age" -> Ok(<<[type |-> "EncryptedIdentity", key |-> "e"]>>)
      [] OTHER -> Failed("reading identity file")

(* plugin.NewIdentityWithoutData *)
NewIdentityWithoutData(name) ==
    CASE name = "yubikey" -> Ok(<<[type |-> "plugin.Identity", key |-> name]>>)
      [] OTHER -> Failed("initializing plugin")

(* id.Recipient() of a native, SSH or plugin identity *)
RecipientOf(id) ==
    CASE id.type = "X25519Identity"  -> [type |-> "X25519", key |-> id.key]
      [] id.type = "Ed25519Identity" -> [type |-> "ssh-ed25519", key |-> id.key]
      [] id.type = "RSAIdentity"     -> [type |-> "ssh-rsa", key |-> id.key]
      [] id.type = "EncryptedSSHIdentity" -> [type |-> "ssh-ed25519", key |-> id.key]
      [] id.type = "plugin.Identity" -> [type |-> "plugin", key |-> id.key]
      [] OTHER -> [type |-> "unknown", key |-> id.key]

NativeIdentityTypes == {"X25519Identity", "plugin.Identity", "RSAIdentity",
                        "Ed25519Identity", "EncryptedSSHIdentity"}

(* Results gathered in order until the first error: the loops of           *)
(* encryptNotPass and decryptNotPass call errorf at the first failure.     *)
RECURSIVE Gather(_, _)
Gather(results, acc) ==
    IF results = << >> THEN Ok(acc)
    ELSE IF Head(results).err # NoError THEN [err |-> Head(results).err, items |-> acc]
    ELSE Gather(Tail(results), acc \o Head(results).items)

(* identitiesToRecipients, age.go:481-506.  unlocked: whether the          *)
(* passphrase-protected identity file could be decrypted.                  *)
identitiesToRecipients(ids, unlocked) ==
    Gather([i \in 1..Len(ids) |->
              IF ids[i].type \in NativeIdentityTypes
                THEN Ok(<<RecipientOf(ids[i])>>)
              ELSE IF ids[i].type = "EncryptedIdentity"
                THEN IF unlocked
                       THEN Ok(<<[type |-> "X25519", key |-> "e1"],
                                 [type |-> "X25519", key |-> "e2"]>>)
                       ELSE Failed("internal error processing identity file")
              ELSE Failed("unexpected identity type")],
           << >>)

(* The body of encryptNotPass's third loop for one -i / -j flag            *)
(* (age.go:338-357).                                                       *)
identityFlagRecipients(f, unlocked) ==
    IF f.Type = "i"
      THEN LET ids == parseIdentitiesFile(f.Value)
           IN  IF ids.err # NoError THEN ids
               ELSE identitiesToRecipients(ids.items, unlocked)
    ELSE IF f.Type = "j"
      THEN LET id == NewIdentityWithoutData(f.Value)
           IN  IF id.err # NoError THEN id
               ELSE Ok(<<RecipientOf(id.items[1])>>)
    ELSE Ok(<< >>)

(* encryptNotPass, age.go:317-357: the recipients of the -r flags, then    *)
(* of the -R files, then of the -i / -j flags.                             *)
encryptNotPassRecipients(recs, files, ids, unlocked) ==
    Gather([i \in 1..Len(recs) |-> parseRecipient(recs[i])]
             \o [i \in 1..Len(files) |-> parseRecipientsFile(files[i])]
             \o [i \in 1..Len(ids) |-> identityFlagRecipients(ids[i], unlocked)],
           << >>)

rejectScryptIdentity == [type |-> "rejectScryptIdentity", key |-> ""]
LazyScryptIdentity   == [type |-> "LazyScryptIdentity", key |-> ""]
ScryptRecipient      == [type |-> "scrypt", key |-> "passphrase"]

(* The body of decryptNotPass's loop for one flag (age.go:419-434). *)
identityFlagIdentities(f) ==
    IF f.Type = "i" THEN parseIdentitiesFile(f.Value)
    ELSE IF f.Type = "j" THEN NewIdentityWithoutData(f.Value)
    ELSE Ok(<< >>)

(* decryptNotPass, age.go:416-434 *)
decryptNotPassIdentities(flags) ==
    Gather([i \in 1..Len(flags) |-> identityFlagIdentities(flags[i])],
           <<rejectScryptIdentity>>)

-----------------------------------------------------------------------------
(* lazyOpener, age.go:508-533.  The results of os.Create, of the file's    *)
(* Write and of its Close are the environment's: created, written and      *)
(* closedOK say whether the call succeeds.                                 *)

ErrCreate == "os.Create failed"
ErrWrite  == "write failed"
ErrClosed == "file already closed"
ErrClose  == "close failed"

(* lazyOpener.Write calling os.Create again after os.Create has failed *)
lazyOpenerWriteRetrying(lo, file, created, written) ==
    LET creating == lo.f = "nil"
        lo1 == IF ~creating THEN lo
               ELSE IF created THEN [lo EXCEPT !.f = "file", !.err = NoError]
               ELSE [lo EXCEPT !.err = ErrCreate]
        file1 == IF creating /\ created THEN "open" ELSE file
    IN  IF lo1.err # NoError
          THEN [l |-> lo1, fd |-> file1, creating |-> creating, n |-> 0, err |-> lo1.err]
        ELSE IF file1 # "open"
          THEN [l |-> lo1, fd |-> file1, creating |-> creating, n |-> 0, err |-> ErrClosed]
        ELSE IF written
          THEN [l |-> lo1, fd |-> file1, creating |-> creating, n |-> 1, err |-> NoError]
        ELSE [l |-> lo1, fd |-> file1, creating |-> creating, n |-> 0, err |-> ErrWrite]

(* lazyOpener.Write, age.go:518-526.  The result holds the struct and the  *)
(* file after the call, whether os.Create was called, and (n, err).        *)
lazyOpenerWrite(lo, file, created, written) ==
    LET creating == lo.f = "nil" /\ lo.err = NoError
        lo1 == IF ~creating THEN lo
               ELSE IF created THEN [lo EXCEPT !.f = "file"]
               ELSE [lo EXCEPT !.err = ErrCreate]
        file1 == IF creating /\ created THEN "open" ELSE file
    IN  IF lo1.err # NoError
          THEN [l |-> lo1, fd |-> file1, creating |-> creating, n |-> 0, err |-> lo1.err]
        ELSE IF file1 # "open"
          THEN [l |-> lo1, fd |-> file1, creating |-> creating, n |-> 0, err |-> ErrClosed]
        ELSE IF written
          THEN [l |-> lo1, fd |-> file1, creating |-> creating, n |-> 1, err |-> NoError]
        ELSE [l |-> lo1, fd |-> file1, creating |-> creating, n |-> 0, err |-> ErrWrite]

(* lazyOpener.Close, age.go:528-533 *)
lazyOpenerClose(lo, file, closedOK) ==
    IF lo.f # "nil"
      THEN IF file # "open"
             THEN [fd |-> file, called |-> TRUE, err |-> ErrClosed]
           ELSE [fd |-> "closed", called |-> TRUE,
                 err |-> IF closedOK THEN NoError ELSE ErrClose]
    ELSE [fd |-> file, called |-> FALSE, err |-> NoError]

(* A Write on main's out: the lazyOpener, os.Stdout, or the bytes.Buffer   *)
(* (which does not fail).                                                  *)
outWrite(created, written) ==
    IF out = "lazyOpener" THEN lazyOpenerWrite(l, fd, created, written)
    ELSE IF out = "buffer" \/ written
      THEN [l |-> l, fd |-> fd, creating |-> FALSE, n |-> 1, err |-> NoError]
    ELSE [l |-> l, fd |-> fd, creating |-> FALSE, n |-> 0, err |-> ErrWrite]

(* The mark put in the trace after a call that returned an error. *)
Failure(err) == IF err # NoError THEN <<"failed">> ELSE << >>

(* The calls a Write on encrypt's out makes, outermost first: through the  *)
(* armor writer when there is one, then main's out.                        *)
dstWriteCalls(res) ==
    (IF a = "open" THEN <<"armor.Write">> ELSE << >>)
      \o (IF res.creating THEN <<"os.Create">> ELSE << >>)
      \o <<"out.Write">>

(* The effect on the layers of one Write on encrypt's out. *)
dstWrite(res, calls) ==
    /\ l' = res.l
    /\ fd' = res.fd
    /\ creates' = creates + (IF res.creating THEN 1 ELSE 0)
    /\ trace' = trace \o calls \o dstWriteCalls(res) \o Failure(res.err)

-----------------------------------------------------------------------------
(* encryptNotPass, age.go:317-359 *)
encryptNotPass ==
    /\ pc = "encryptNotPass"
    /\ \E unlocked \in BOOLEAN :
         LET res == encryptNotPassRecipients(recipientFlags, recipientsFileFlags,
                                             identityFlags, unlocked)
         IN  IF res.err # NoError
               THEN errorf(res.err) /\ recipients' = recipients
               ELSE /\ recipients' = res.items
                    /\ pc' = "encrypt"
                    /\ UNCHANGED <<exitCode, errmsg, defers>>
    /\ UNCHANGED <<op, identities, flagVars, argVars, ioVars, layerVars, decVars>>

(* encryptPass, age.go:361-373.  The passphrase prompt fails, or the two   *)
(* entries differ, or it yields a passphrase.                              *)
encryptPass ==
    /\ pc = "encryptPass"
    /\ \E prompt \in {"ok", "could not read passphrase", "passphrases didn't match"} :
         IF prompt # "ok"
           THEN errorf(prompt) /\ recipients' = recipients
           ELSE /\ recipients' = <<ScryptRecipient>>
                /\ pc' = "encrypt"
                /\ UNCHANGED <<exitCode, errmsg, defers>>
    /\ UNCHANGED <<op, identities, flagVars, argVars, ioVars, layerVars, decVars>>

(* age.Encrypt's check of its recipients. *)
EncryptRecipientsError(rs) ==
    IF Len(rs) = 0 THEN "no recipients specified"
    ELSE IF Len(rs) > 1 /\ \E i \in 1..Len(rs) : rs[i].type = "scrypt"
      THEN "an ScryptRecipient must be the only one for the file"
    ELSE NoError

(* encrypt, age.go:377-390: the armor writer, then age.Encrypt, which      *)
(* checks the recipients, wraps the file key (a recipient may fail to) and *)
(* writes the header.                                                      *)
encryptStart ==
    /\ pc = "encrypt"
    /\ a' = IF armorFlag THEN "open" ELSE "none"
    /\ IF EncryptRecipientsError(recipients) # NoError
         THEN /\ errorf(EncryptRecipientsError(recipients))
              /\ UNCHANGED <<w, l, fd, creates, trace>>
         ELSE \/ /\ errorf("failed to wrap key for recipient")
                 /\ UNCHANGED <<w, l, fd, creates, trace>>
              \/ \E created \in BOOLEAN, written \in BOOLEAN :
                LET res == outWrite(created, written)
                IN  /\ l' = res.l
                    /\ fd' = res.fd
                    /\ creates' = creates + (IF res.creating THEN 1 ELSE 0)
                    /\ trace' = trace
                                  \o (IF armorFlag THEN <<"armor.Write">> ELSE << >>)
                                  \o (IF res.creating THEN <<"os.Create">> ELSE << >>)
                                  \o <<"out.Write">> \o Failure(res.err)
                    /\ IF res.err # NoError
                         THEN errorf(res.err) /\ w' = w
                         ELSE /\ w' = "open"
                              /\ pc' = "copy"
                              /\ UNCHANGED <<exitCode, errmsg, defers>>
    /\ UNCHANGED <<lazyLog, flagVars, argVars, ioVars, opVars, decVars>>

(* io.Copy(w, in), age.go:391-393.  The input is empty, or reading it      *)
(* fails, or it is written to the STREAM writer, which passes a chunk on   *)
(* once 64 KiB are buffered.                                               *)
encryptCopy ==
    /\ pc = "copy"
    /\ \E read \in {"empty", "error", "short", "long"} :
         CASE read = "empty" ->
                /\ pc' = "streamClose"
                /\ UNCHANGED <<exitCode, errmsg, defers, l, fd, creates, trace>>
           [] read = "error" ->
                /\ errorf("read failed")
                /\ UNCHANGED <<l, fd, creates, trace>>
           [] read = "short" ->
                /\ trace' = Append(trace, "stream.Write")
                /\ pc' = "streamClose"
                /\ UNCHANGED <<exitCode, errmsg, defers, l, fd, creates>>
           [] read = "long" ->
                \E created \in BOOLEAN, written \in BOOLEAN :
                  LET res == outWrite(created, written)
                  IN  /\ dstWrite(res, <<"stream.Write">>)
                      /\ IF res.err # NoError
                           THEN errorf(res.err)
                           ELSE /\ pc' = "streamClose"
                                /\ UNCHANGED <<exitCode, errmsg, defers>>
    /\ UNCHANGED <<w, a, lazyLog, flagVars, argVars, ioVars, opVars, decVars>>

(* w.Close(), age.go:394-396: the STREAM writer seals the last chunk and   *)
(* writes it.                                                              *)
streamClose ==
    /\ pc = "streamClose"
    /\ w' = "closed"
    /\ \E created \in BOOLEAN, written \in BOOLEAN :
         LET res == outWrite(created, written)
         IN  /\ dstWrite(res, <<"stream.Close">>)
             /\ IF res.err # NoError
                  THEN errorf(res.err)
                  ELSE /\ pc' = "encryptReturn"
                       /\ UNCHANGED <<exitCode, errmsg, defers>>
    /\ UNCHANGED <<a, lazyLog, flagVars, argVars, ioVars, opVars, decVars>>

(* encrypt returns: its deferred a.Close() runs (age.go:380-384), which    *)
(* writes the last line and the END marker.                                *)
encryptReturn ==
    /\ pc = "encryptReturn"
    /\ IF a = "open"
         THEN \E created \in BOOLEAN, written \in BOOLEAN :
                LET res == outWrite(created, written)
                IN  /\ a' = "closed"
                    /\ l' = res.l
                    /\ fd' = res.fd
                    /\ creates' = creates + (IF res.creating THEN 1 ELSE 0)
                    /\ trace' = trace \o <<"armor.Close">>
                                  \o (IF res.creating THEN <<"os.Create">> ELSE << >>)
                                  \o <<"out.Write">> \o Failure(res.err)
                    /\ IF res.err # NoError
                         THEN errorf(res.err)
                         ELSE /\ pc' = "mainReturn"
                              /\ UNCHANGED <<exitCode, errmsg, defers>>
         ELSE /\ pc' = "mainReturn"
              /\ UNCHANGED <<exitCode, errmsg, defers, a, l, fd, creates, trace>>
    /\ UNCHANGED <<w, lazyLog, flagVars, argVars, ioVars, opVars, decVars>>

(* outCloseError of a deferred f.Close() whose error is dropped *)
outCloseErrorIgnored(res) == NoError

(* if err := f.Close(); err != nil { errorf(...) }, age.go:251-253: the    *)
(* error main's deferred call acts on.                                     *)
outCloseError(res) == res.err

(* main returns: its deferred calls run last in, first out                 *)
(* (age.go:233, 250-254, 272).                                             *)
mainReturn ==
    /\ pc = "mainReturn"
    /\ IF defers = << >>
         THEN /\ pc' = "exited" /\ exitCode' = 0
              /\ UNCHANGED <<errmsg, defers, fd, trace>>
         ELSE LET call == defers[Len(defers)]
                  rest == SubSeq(defers, 1, Len(defers) - 1)
              IN  IF call = "out.Close"
                    THEN \E closedOK \in BOOLEAN :
                           LET res == lazyOpenerClose(l, fd, closedOK)
                           IN  /\ fd' = res.fd
                               /\ trace' = trace \o <<"out.Close">> \o Failure(res.err)
                               /\ IF outCloseError(res) # NoError
                                    THEN /\ pc' = "exited" /\ exitCode' = 1
                                         /\ errmsg' = "failed to close output file"
                                         /\ defers' = rest
                                    ELSE /\ defers' = rest
                                         /\ UNCHANGED <<pc, exitCode, errmsg>>
                    ELSE /\ defers' = rest
                         /\ UNCHANGED <<pc, exitCode, errmsg, fd, trace>>
    /\ UNCHANGED <<w, a, l, creates, lazyLog, flagVars, argVars, ioVars, opVars, decVars>>

-----------------------------------------------------------------------------
(* decrypt, age.go:449-471.  A byte is a one-character string; "xFF",      *)
(* "xFE" and "x00" stand for the bytes 0xff, 0xfe and 0x00.                *)

(* armor.Header: "-----BEGIN AGE ENCRYPTED FILE-----" *)
armorHeader ==
    <<"-", "-", "-", "-", "-", "B", "E", "G", "I", "N", " ", "A", "G",
      "E", " ", "E", "N", "C", "R", "Y", "P", "T", "E", "D", " ",
      "F", "I", "L", "E", "-", "-", "-", "-", "-">>

(* crlfMangledIntro, age.go:402 *)
crlfMangledIntro ==
    <<"a", "g", "e", "-", "e", "n", "c", "r", "y", "p", "t", "i", "o",
      "n", ".", "o", "r", "g", "/", "v", "1", "\r">>

(* utf16MangledIntro, age.go:403 *)
utf16MangledIntro ==
    <<"xFF", "xFE", "a", "x00", "g", "x00", "e", "x00", "-", "x00", "e",
      "x00", "n", "x00", "c", "x00", "r", "x00", "y", "x00", "p",
      "x00">>

(* The intro line of the age format: "age-encryption.org/v1\n" *)
ageIntro ==
    <<"a", "g", "e", "-", "e", "n", "c", "r", "y", "p", "t", "i", "o",
      "n", ".", "o", "r", "g", "/", "v", "1", "\n">>

Min(x, y) == IF x < y THEN x ELSE y

Prefix(s, n) == SubSeq(s, 1, Min(n, Len(s)))

HasPrefix(s, p) == Len(s) >= Len(p) /\ SubSeq(s, 1, Len(p)) = p

(* bufio.NewReader(in): nothing buffered, nothing read from in.  rd.buf    *)
(* holds the bytes read from in and not yet handed on; rd.pos counts the   *)
(* bytes read from in.                                                     *)
bufioNewReader == [buf |-> << >>, pos |-> 0]

(* The sizes the buffer can have right after Peek(n): Peek reads from the  *)
(* source until n bytes are buffered or the source ends, and one read may  *)
(* return more than was missing.                                           *)
PeekFills(data, rd, n) ==
    LET avail == Len(rd.buf) + (Len(data) - rd.pos)
    IN  IF Len(rd.buf) >= n THEN {Len(rd.buf)} ELSE Min(n, avail)..avail

(* Peek taking the bytes it returns out of the buffer, as Read does *)
PeekConsuming(data, rd, n, m) ==
    LET more == m - Len(rd.buf)
        full == rd.buf \o SubSeq(data, rd.pos + 1, rd.pos + more)
    IN  [rd |-> [buf |-> SubSeq(full, Min(n, Len(full)) + 1, Len(full)),
                 pos |-> rd.pos + more],
         bytes |-> Prefix(full, n)]

(* bufio.Reader.Peek(n) with the buffer filled to m bytes: the first n     *)
(* buffered bytes (fewer at the end of the source), none of them taken     *)
(* out of the buffer.                                                      *)
Peek(data, rd, n, m) ==
    LET more == m - Len(rd.buf)
        filled == [buf |-> rd.buf \o SubSeq(data, rd.pos + 1, rd.pos + more),
                   pos |-> rd.pos + more]
    IN  [rd |-> filled, bytes |-> Prefix(filled.buf, n)]

(* What a reader of rd gets from now on: the buffer, then the rest of the  *)
(* source.                                                                 *)
Stream(data, rd) == rd.buf \o SubSeq(data, rd.pos + 1, Len(data))

(* if start, _ := rr.Peek(len(armor.Header)); string(start) == armor.Header *)
(* (age.go:458)                                                            *)
isArmored(start) == start = armorHeader

(* intro == crlfMangledIntro || intro == utf16MangledIntro (age.go:451-452) *)
isMangled(intro) == intro = crlfMangledIntro \/ intro = utf16MangledIntro

(* decryptNotPass, age.go:416-437 *)
decryptNotPass ==
    /\ pc = "decryptNotPass"
    /\ LET res == decryptNotPassIdentities(identityFlags)
       IN  IF res.err # NoError
             THEN errorf(res.err) /\ identities' = identities
             ELSE /\ identities' = res.items
                  /\ pc' = "decrypt"
                  /\ UNCHANGED <<exitCode, errmsg, defers>>
    /\ UNCHANGED <<op, recipients, flagVars, argVars, ioVars, layerVars, decVars>>

(* decryptPass, age.go:439-447 *)
decryptPass ==
    /\ pc = "decryptPass"
    /\ identities' = <<LazyScryptIdentity>>
    /\ pc' = "decrypt"
    /\ UNCHANGED <<exitCode, errmsg, defers, op, recipients,
                   flagVars, argVars, ioVars, layerVars, decVars>>

(* decrypt, age.go:449-462, on an input drawn from Inputs: the check for   *)
(* an intro mangled by PowerShell, then the detection of the armor.        *)
decryptStart(Inputs) ==
    /\ pc = "decrypt"
    /\ \E data \in Inputs :
         /\ input' = data
         /\ \E m1 \in PeekFills(data, bufioNewReader, Len(crlfMangledIntro)) :
              LET p1 == Peek(data, bufioNewReader, Len(crlfMangledIntro), m1)
              IN  IF isMangled(p1.bytes)
                    THEN /\ errorf("invalid header intro")
                         /\ rr' = p1.rd
                         /\ armored' = armored
                    ELSE \E m2 \in PeekFills(data, p1.rd, Len(armorHeader)) :
                           LET p2 == Peek(data, p1.rd, Len(armorHeader), m2)
                           IN  /\ rr' = p2.rd
                               /\ armored' = IF isArmored(p2.bytes) THEN "yes" ELSE "no"
                               /\ pc' = "ageDecrypt"
                               /\ UNCHANGED <<exitCode, errmsg, defers>>
    /\ UNCHANGED <<hdr, idx, unwraps, flagVars, argVars, ioVars, opVars, layerVars>>

-----------------------------------------------------------------------------
(* age.Decrypt and the identities it tries.                                *)

ErrIncorrectIdentity == "incorrect identity for recipient block"
ErrScryptIdentities  == "file is passphrase-encrypted but identities were specified with -i/--identity or -j"

(* rejectScryptIdentity.Unwrap testing for a stanza type no header has *)
rejectScryptIdentityUnwrapWrongType(stanzas) ==
    IF Len(stanzas) # 1 \/ stanzas[1].Type # "Scrypt"
      THEN [key |-> FALSE, err |-> ErrIncorrectIdentity, exit |-> FALSE]
      ELSE [key |-> FALSE, err |-> ErrScryptIdentities, exit |-> TRUE]

(* rejectScryptIdentity.Unwrap, age.go:407-414: ErrIncorrectIdentity, or   *)
(* errorWithHint ends the process ("exit"); no file key is ever returned.  *)
rejectScryptIdentityUnwrap(stanzas) ==
    IF Len(stanzas) # 1 \/ stanzas[1].Type # "scrypt"
      THEN [key |-> FALSE, err |-> ErrIncorrectIdentity, exit |-> FALSE]
      ELSE [key |-> FALSE, err |-> ErrScryptIdentities, exit |-> TRUE]

(* The stanza type an identity of the given type unwraps. *)
StanzaTypeOf(id) ==
    CASE id.type = "X25519Identity" -> "X25519"
      [] id.type = "EncryptedIdentity" -> "X25519"
      [] id.type = "Ed25519Identity" -> "ssh-ed25519"
      [] id.type = "LazyScryptIdentity" -> "scrypt"
      [] OTHER -> "plugin"

(* The results Unwrap can have for an identity other than                  *)
(* rejectScryptIdentity: without a stanza of its type it is the incorrect  *)
(* identity; with one, the key may match, or not, or the unwrapping fails  *)
(* (a passphrase prompt that fails, a work factor that is too large).      *)
otherUnwrapResults(id, stanzas) ==
    IF \E i \in 1..Len(stanzas) : stanzas[i].Type = StanzaTypeOf(id)
      THEN {[key |-> TRUE, err |-> NoError, exit |-> FALSE],
            [key |-> FALSE, err |-> ErrIncorrectIdentity, exit |-> FALSE],
            [key |-> FALSE, err |-> "unwrap failed", exit |-> FALSE]}
      ELSE {[key |-> FALSE, err |-> ErrIncorrectIdentity, exit |-> FALSE]}

UnwrapResults(id, stanzas) ==
    IF id = rejectScryptIdentity
      THEN {rejectScryptIdentityUnwrap(stanzas)}
      ELSE otherUnwrapResults(id, stanzas)

(* The headers age.Decrypt may find in the input. *)
Stanza(t) == [Type |-> t]
Headers ==
    {<< >>, <<Stanza("scrypt")>>, <<Stanza("X25519")>>,
     <<Stanza("X25519"), Stanza("ssh-ed25519")>>,
     <<Stanza("scrypt"), Stanza("X25519")>>,
     <<Stanza("X25519"), Stanza("scrypt")>>}

(* An scrypt stanza must be the only stanza of the header. *)
DecryptHeaderError(stanzas) ==
    IF Len(stanzas) > 1 /\ \E i \in 1..Len(stanzas) : stanzas[i].Type = "scrypt"
      THEN "an scrypt recipient must be the only one"
    ELSE NoError

(* r, err := age.Decrypt(in, identities...), age.go:464-467, first part:   *)
(* the header is read from the stream decrypt handed over.  A stream that  *)
(* is not armored and does not start with the intro line is no age file.   *)
ageDecryptHeader ==
    /\ pc = "ageDecrypt"
    /\ IF armored = "no" /\ ~HasPrefix(Stream(input, rr), ageIntro)
         THEN errorf("failed to read header") /\ UNCHANGED <<hdr, idx>>
         ELSE \E parsed \in BOOLEAN, stanzas \in Headers :
                IF ~parsed
                  THEN errorf("failed to read header") /\ UNCHANGED <<hdr, idx>>
                ELSE IF DecryptHeaderError(stanzas) # NoError
                  THEN errorf(DecryptHeaderError(stanzas)) /\ UNCHANGED <<hdr, idx>>
                ELSE /\ hdr' = stanzas
                     /\ idx' = 1
                     /\ pc' = "unwrap"
                     /\ UNCHANGED <<exitCode, errmsg, defers>>
    /\ UNCHANGED <<input, rr, armored, unwraps,
                   flagVars, argVars, ioVars, opVars, layerVars>>

(* age.Decrypt, second part: the identities are tried in order; the first  *)
(* file key is taken and the header MAC verified with it.                  *)
ageDecryptUnwrap ==
    /\ pc = "unwrap"
    /\ IF idx > Len(identities)
         THEN /\ errorf("no identity matched any of the recipients")
              /\ UNCHANGED <<idx, unwraps>>
         ELSE \E res \in UnwrapResults(identities[idx], hdr) :
                /\ unwraps' = Append(unwraps, [id |-> identities[idx], res |-> res])
                /\ IF res.exit
                     THEN errorf(res.err) /\ idx' = idx
                   ELSE IF res.key
                     THEN \E macOK \in BOOLEAN :
                            IF macOK
                              THEN /\ pc' = "decryptCopy"
                                   /\ idx' = idx
                                   /\ UNCHANGED <<exitCode, errmsg, defers>>
                              ELSE errorf("bad header MAC") /\ idx' = idx
                   ELSE IF res.err = ErrIncorrectIdentity
                     THEN /\ idx' = idx + 1
                          /\ UNCHANGED <<pc, exitCode, errmsg, defers>>
                   ELSE errorf(res.err) /\ idx' = idx
    /\ UNCHANGED <<input, rr, armored, hdr,
                   flagVars, argVars, ioVars, opVars, layerVars>>

(* io.Copy(out, r), age.go:468-470: the payload is empty, or fails to      *)
(* authenticate, or is written to out.                                     *)
decryptCopy ==
    /\ pc = "decryptCopy"
    /\ \E payload \in {"empty", "failed", "data"} :
         CASE payload = "empty" ->
                /\ pc' = "mainReturn"
                /\ UNCHANGED <<exitCode, errmsg, defers, l, fd, creates, trace>>
           [] payload = "failed" ->
                /\ errorf("failed to decrypt and authenticate payload chunk")
                /\ UNCHANGED <<l, fd, creates, trace>>
           [] payload = "data" ->
                \E created \in BOOLEAN, written \in BOOLEAN :
                  LET res == outWrite(created, written)
                  IN  /\ dstWrite(res, << >>)
                      /\ IF res.err # NoError
                           THEN errorf(res.err)
                           ELSE /\ pc' = "mainReturn"
                                /\ UNCHANGED <<exitCode, errmsg, defers>>
    /\ UNCHANGED <<w, a, lazyLog, flagVars, argVars, ioVars, opVars, decVars>>

-----------------------------------------------------------------------------
(* The inputs of decrypt. *)

RestOfInput == <<"\n", "Y", "W">>

(* Every prefix of s. *)
Prefixes(s) == {SubSeq(s, 1, n) : n \in 0..Len(s)}

(* s with the byte at position i replaced by b *)
Replaced(s, i, b) == [s EXCEPT ![i] = b]

(* The inputs of a run of the whole program. *)
MainInputs ==
    {<< >>,
     ageIntro \o RestOfInput,
     armorHeader \o RestOfInput,
     crlfMangledIntro \o RestOfInput,
     utf16MangledIntro \o RestOfInput,
     SubSeq(armorHeader, 1, Len(armorHeader) - 1)}

(* Inputs around the two checks of decrypt: the four starts and every      *)
(* prefix of them, and the armor header and the CRLF intro with one byte   *)
(* changed.                                                                *)
AllInputs ==
    Prefixes(ageIntro \o RestOfInput)
      \cup Prefixes(armorHeader \o RestOfInput)
      \cup Prefixes(crlfMangledIntro \o RestOfInput)
      \cup Prefixes(utf16MangledIntro \o RestOfInput)
      \cup {Replaced(armorHeader \o RestOfInput, i, "x") : i \in 1..Len(armorHeader)}
      \cup {Replaced(crlfMangledIntro \o RestOfInput, i, "x") :
              i \in 1..Len(crlfMangledIntro)}

-----------------------------------------------------------------------------
Next ==
    \/ ParseBool
    \/ ParseOutput
    \/ ParseRecipient
    \/ ParseRecipientsFile
    \/ ParseIdentity
    \/ ParsePlugin
    \/ NoArguments
    \/ ParseDone
    \/ mainValidate
    \/ openInput
    \/ openOutput
    \/ dispatch
    \/ encryptNotPass
    \/ encryptPass
    \/ encryptStart
    \/ encryptCopy
    \/ streamClose
    \/ encryptReturn
    \/ decryptNotPass
    \/ decryptPass
    \/ decryptStart(MainInputs)
    \/ ageDecryptHeader
    \/ ageDecryptUnwrap
    \/ decryptCopy
    \/ mainReturn

Spec == Init /\ [][Next]_vars

-----------------------------------------------------------------------------
(* The lazyOpener on its own: any sequence of Write and Close calls on the *)
(* value newLazyOpener returns.                                            *)

(* The most calls made on one lazyOpener. *)
MaxCalls == 4

InitLazy ==
    /\ outFlag = "out.age"
    /\ decryptFlag = FALSE /\ encryptFlag = FALSE /\ passFlag = FALSE
    /\ versionFlag = FALSE /\ armorFlag = FALSE
    /\ recipientFlags = << >>
    /\ recipientsFileFlags = << >>
    /\ identityFlags = << >>
    /\ anyFlags = TRUE /\ args = << >> /\ ijCalls = << >>
    /\ pc = "lazyOpener" /\ exitCode = 0 /\ errmsg = NoError /\ defers = << >>
    /\ in = "stdin" /\ out = "lazyOpener" /\ stdinInUse = FALSE
    /\ stdinTTY = "unknown" /\ stdoutTTY = "unknown"
    /\ op = "none" /\ recipients = << >> /\ identities = << >>
    /\ w = "none" /\ a = "none"
    /\ l = newLazyOpener(outFlag)
    /\ fd = "none" /\ creates = 0 /\ trace = << >> /\ lazyLog = << >>
    /\ input = << >> /\ rr = [buf |-> << >>, pos |-> 0]
    /\ armored = "unset" /\ hdr = << >> /\ idx = 0 /\ unwraps = << >>

(* l.Write(p) *)
LazyWrite ==
    /\ pc = "lazyOpener"
    /\ Len(lazyLog) < MaxCalls
    /\ \E created \in BOOLEAN, written \in BOOLEAN :
         LET res == lazyOpenerWrite(l, fd, created, written)
         IN  /\ l' = res.l
             /\ fd' = res.fd
             /\ creates' = creates + (IF res.creating THEN 1 ELSE 0)
             /\ lazyLog' = Append(lazyLog, [call |-> "Write", n |-> res.n, err |-> res.err,
                                            created |-> creates' - creates])
    /\ UNCHANGED <<w, a, trace, flagVars, argVars, procVars, ioVars, opVars, decVars>>

(* l.Close() *)
LazyClose ==
    /\ pc = "lazyOpener"
    /\ Len(lazyLog) < MaxCalls
    /\ \E closedOK \in BOOLEAN :
         LET res == lazyOpenerClose(l, fd, closedOK)
         IN  /\ fd' = res.fd
             /\ lazyLog' = Append(lazyLog, [call |-> "Close", n |-> 0, err |-> res.err,
                                            created |-> 0])
    /\ UNCHANGED <<w, a, l, creates, trace,
                   flagVars, argVars, procVars, ioVars, opVars, decVars>>

NextLazy == LazyWrite \/ LazyClose

SpecLazy == InitLazy /\ [][NextLazy]_vars

-----------------------------------------------------------------------------
(* decrypt on its own, on every input of AllInputs: the state of           *)
(* "age -d" with the input on a standard input that is no terminal, as     *)
(* decryptPass calls decrypt.                                              *)

InitDecrypt ==
    /\ outFlag = ""
    /\ decryptFlag = TRUE /\ encryptFlag = FALSE /\ passFlag = FALSE
    /\ versionFlag = FALSE /\ armorFlag = FALSE
    /\ recipientFlags = << >>
    /\ recipientsFileFlags = << >>
    /\ identityFlags = << >>
    /\ anyFlags = TRUE /\ args = << >> /\ ijCalls = << >>
    /\ pc = "decrypt" /\ exitCode = 0 /\ errmsg = NoError /\ defers = << >>
    /\ in = "stdin" /\ out = "stdout" /\ stdinInUse = TRUE
    /\ stdinTTY = "no" /\ stdoutTTY = "no"
    /\ op = "decryptPass" /\ recipients = << >> /\ identities = <<LazyScryptIdentity>>
    /\ w = "none" /\ a = "none"
    /\ l = [name |-> "", f |-> "nil", err |-> NoError]
    /\ fd = "none" /\ creates = 0 /\ trace = << >> /\ lazyLog = << >>
    /\ input = << >> /\ rr = [buf |-> << >>, pos |-> 0]
    /\ armored = "unset" /\ hdr = << >> /\ idx = 0 /\ unwraps = << >>

NextDecrypt == decryptStart(AllInputs) \/ ageDecryptHeader

SpecDecrypt == InitDecrypt /\ [][NextDecrypt]_vars

-----------------------------------------------------------------------------
(* What the claims speak of. *)

(* flag.Parse has returned: the flag variables have their final values. *)
Parsed == pc \notin {"parse", "lazyOpener"}

(* The process has ended with status 1 and an error message. *)
ErrorExit == pc = "exited" /\ exitCode = 1 /\ errmsg # NoError

(* --version: the version was printed and main returned, without error. *)
VersionExit == pc = "exited" /\ exitCode = 0 /\ errmsg = NoError /\ versionFlag

(* The input has not been opened, the output not created, no operation     *)
(* has run.                                                                *)
NothingStarted ==
    /\ in = "stdin" /\ ~stdinInUse /\ defers = << >>
    /\ out = "stdout" /\ creates = 0 /\ trace = << >>
    /\ op = "none" /\ recipients = << >> /\ identities = << >>

(* -d together with -e, -a, -p, -r or -R *)
DecryptConflict ==
    /\ decryptFlag
    /\ \/ encryptFlag \/ armorFlag \/ passFlag
       \/ Len(recipientFlags) > 0 \/ Len(recipientsFileFlags) > 0

DecryptConflictErrors ==
    {ErrEncryptDecrypt, ErrArmorDecrypt, ErrPassDecrypt, ErrRecipientDecrypt,
     ErrRecFileDecrypt}

-----------------------------------------------------------------------------
-----------------------------------------------------------------------------
(* age.Encrypt has been called, or is the next call. *)
EncryptReached ==
    pc \in {"encrypt", "copy", "streamClose", "encryptReturn"} \/ w # "none" \/ a # "none"

-----------------------------------------------------------------------------
-----------------------------------------------------------------------------
(* stdoutTTY is "unknown" until main asks (age.go:256): standard output    *)
(* may then be a terminal.                                                 *)
StdoutMayBeTerminal == stdoutTTY # "no"

-----------------------------------------------------------------------------
(* The calls of the trace. *)
Count(seq, x) == Cardinality({i \in DOMAIN seq : seq[i] = x})
First(seq, x) == CHOOSE i \in DOMAIN seq : seq[i] = x /\ \A j \in 1..(i - 1) : seq[j] # x
NoneAfter(seq, called, closed) ==
    \A i \in DOMAIN seq : seq[i] = called => i < First(seq, closed)

(* C4, as stated: once age.Encrypt has returned a STREAM writer, its Close *)
(* has run on every exit of encrypt, the exit after a failed copy          *)
(* included.                                                               *)
C4_AsStated ==
    (pc = "exited" /\ w # "none") => Count(trace, "stream.Close") >= 1

-----------------------------------------------------------------------------
EncryptOps == {"encryptPass", "encryptNotPass"}

(* C9: after a successful armored encryption to an -o file, the STREAM     *)
(* writer, the armor writer and the file have each been closed once, in    *)
(* that order, none was written to after its Close, and in no run does the *)
(* program go on, or end with status 0, after a call on a layer failed.    *)
C9_LayersClosedInOrder ==
    /\ (pc = "exited" /\ exitCode = 0 /\ op \in EncryptOps /\ armorFlag
          /\ out = "lazyOpener") =>
          /\ Count(trace, "stream.Close") = 1
          /\ Count(trace, "armor.Close") = 1
          /\ Count(trace, "out.Close") = 1
          /\ First(trace, "stream.Close") < First(trace, "armor.Close")
          /\ First(trace, "armor.Close") < First(trace, "out.Close")
          /\ NoneAfter(trace, "stream.Write", "stream.Close")
          /\ NoneAfter(trace, "armor.Write", "armor.Close")
          /\ NoneAfter(trace, "out.Write", "out.Close")
          /\ NoneAfter(trace, "os.Create", "out.Close")
          /\ w = "closed" /\ a = "closed" /\ fd = "closed"
    /\ Count(trace, "failed") > 0 => ErrorExit

C9_Witness ==
    /\ pc = "exited" /\ exitCode = 0 /\ op = "encryptNotPass" /\ armorFlag
    /\ out = "lazyOpener" /\ Count(trace, "stream.Write") = 1
    /\ trace[Len(trace)] = "out.Close"

-----------------------------------------------------------------------------
RECURSIVE Concat(_)
Concat(seqs) == IF seqs = << >> THEN << >> ELSE Head(seqs) \o Concat(Tail(seqs))

(* What the flags of the command line stand for, flag by flag in the       *)
(* order of the command line.                                              *)
IdentitiesOfCalls ==
    Concat([i \in 1..Len(ijCalls) |->
              IF ijCalls[i][1] = "i"
                THEN parseIdentitiesFile(ijCalls[i][2]).items
                ELSE NewIdentityWithoutData(ijCalls[i][2]).items])

RecipientsOfCalls ==
    Concat([i \in 1..Len(ijCalls) |->
              IF ijCalls[i][1] = "i"
                THEN identitiesToRecipients(
                       parseIdentitiesFile(ijCalls[i][2]).items, TRUE).items
                ELSE <<RecipientOf(NewIdentityWithoutData(ijCalls[i][2]).items[1])>>])

RecipientsOfFlags ==
    Concat([i \in 1..Len(recipientFlags) |-> parseRecipient(recipientFlags[i]).items])

RecipientsOfFiles ==
    Concat([i \in 1..Len(recipientsFileFlags) |->
              parseRecipientsFile(recipientsFileFlags[i]).items])

(* C8: identityFlags holds one entry per -i / -j callback, in call order,  *)
(* with the type of the flag; the identities decryptNotPass hands to       *)
(* age.Decrypt are rejectScryptIdentity and then those of the flags in     *)
(* that order; the recipients encryptNotPass hands to age.Encrypt are      *)
(* those of the -r flags, then of the -R files, then of the -i / -j flags. *)
C8_FlagOrderPreserved ==
    /\ identityFlags =
          [i \in 1..Len(ijCalls) |-> [Type |-> ijCalls[i][1], Value |-> ijCalls[i][2]]]
    /\ (op = "decryptNotPass" /\ identities # << >>) =>
          identities = <<rejectScryptIdentity>> \o IdentitiesOfCalls
    /\ (op = "encryptNotPass" /\ (recipients # << >> \/ EncryptReached)) =>
          recipients = RecipientsOfFlags \o RecipientsOfFiles \o RecipientsOfCalls

C8_Witness ==
    /\ pc = "exited" /\ exitCode = 0 /\ op = "decryptNotPass"
    /\ ijCalls = <<<<"j", "yubikey">>, <<"i", "key.txt">>>>
    /\ Len(identities) = 4

-----------------------------------------------------------------------------
IsSingleScrypt(stanzas) == Len(stanzas) = 1 /\ stanzas[1].Type = "scrypt"

(* C6: with -i / -j, rejectScryptIdentity is the first identity handed to  *)
(* age.Decrypt.  Its Unwrap returns no file key; on a header of exactly    *)
(* one scrypt stanza it ends the process with the "passphrase-encrypted"   *)
(* error, and no other identity has been tried; on any other header it     *)
(* returns ErrIncorrectIdentity and the next identity is tried.            *)
C6_RejectScryptFirst ==
    /\ (op = "decryptNotPass" /\ identities # << >>) =>
          identities[1] = rejectScryptIdentity
    /\ \A i \in DOMAIN unwraps :
          unwraps[i].id = rejectScryptIdentity =>
            /\ i = 1
            /\ ~unwraps[i].res.key
            /\ IF IsSingleScrypt(hdr)
                 THEN /\ unwraps[i].res.exit
                      /\ ErrorExit /\ errmsg = ErrScryptIdentities
                      /\ Len(unwraps) = 1
                 ELSE /\ ~unwraps[i].res.exit
                      /\ unwraps[i].res.err = ErrIncorrectIdentity
                      /\ idx >= 2
    /\ (op = "decryptNotPass" /\ unwraps # << >>) =>
          unwraps[1].id = rejectScryptIdentity
    /\ errmsg = ErrScryptIdentities => op = "decryptNotPass" /\ IsSingleScrypt(hdr)

C6_Witness ==
    /\ pc = "exited" /\ errmsg = ErrScryptIdentities
    /\ Len(identities) >= 2 /\ Len(unwraps) = 1

-----------------------------------------------------------------------------
ErrMangledIntro == "invalid header intro"

(* The first bytes of the input are an intro line as PowerShell mangles it. *)
MangledInput ==
    Prefix(input, Len(crlfMangledIntro)) \in {crlfMangledIntro, utf16MangledIntro}

(* C3, as stated: once decrypt has looked at the input, the input goes     *)
(* through the armor reader if it starts with the armor header and to      *)
(* age.Decrypt as it is otherwise, and in both cases the stream handed on  *)
(* starts at the first byte of the input.                                  *)
C3_AsStated ==
    pc # "decrypt" =>
        /\ armored \in {"yes", "no"}
        /\ armored = "yes" <=> HasPrefix(input, armorHeader)
        /\ Stream(input, rr) = input

(* C3, amended: the same for every input that does not start with an intro *)
(* line mangled by PowerShell; for such an input decrypt ends the process  *)
(* with "invalid header intro" and hands nothing on.                       *)
C3_ArmorDetectedByPeek ==
    pc # "decrypt" =>
        IF MangledInput
          THEN ErrorExit /\ errmsg = ErrMangledIntro /\ armored = "unset"
          ELSE /\ armored \in {"yes", "no"}
               /\ armored = "yes" <=> HasPrefix(input, armorHeader)
               /\ Stream(input, rr) = input
               /\ errmsg # ErrMangledIntro

C3_Witness ==
    /\ pc = "ageDecrypt" /\ armored = "yes"
    /\ Len(input) > Len(armorHeader) /\ Len(rr.buf) = Len(armorHeader)

-----------------------------------------------------------------------------
WriteCalls == {i \in DOMAIN lazyLog : lazyLog[i].call = "Write"}
CloseCalls == {i \in DOMAIN lazyLog : lazyLog[i].call = "Close"}

(* C10: over any sequence of Write and Close calls os.Create is called at  *)
(* most once, and by the first Write; without a Write the file is never    *)
(* created and Close returns nil; when os.Create fails, that Write and     *)
(* every later one return 0 and the stored error, os.Create is not called  *)
(* again, and Close returns nil.                                           *)
C10_LazyOpenerCreatesOnce ==
    /\ creates <= 1
    /\ \A i \in DOMAIN lazyLog :
          lazyLog[i].created = 1 <=>
            (i \in WriteCalls /\ \A j \in 1..(i - 1) : j \notin WriteCalls)
    /\ WriteCalls = {} =>
          /\ creates = 0 /\ fd = "none" /\ l.f = "nil"
          /\ \A i \in CloseCalls : lazyLog[i].err = NoError
    /\ \A i \in WriteCalls :
          lazyLog[i].err = ErrCreate =>
            /\ \A j \in WriteCalls :
                  j >= i => lazyLog[j].n = 0 /\ lazyLog[j].err = ErrCreate
            /\ \A j \in WriteCalls : j < i => lazyLog[j].err = ErrCreate
            /\ \A j \in CloseCalls : lazyLog[j].err = NoError
            /\ creates = 1 /\ fd = "none" /\ l.err = ErrCreate

C10_Witness ==
    /\ Len(lazyLog) >= 3
    /\ lazyLog[1].call = "Write" /\ lazyLog[1].err = ErrCreate
    /\ lazyLog[2].call = "Write" /\ lazyLog[2].err = ErrCreate
    /\ lazyLog[3].call = "Close" /\ lazyLog[3].err = NoError

=============================================================================
